---------------------------- MODULE Spec2Model ----------------------------
(***************************************************************************)
(* A model of download_s2_images.js, the Earth Engine Code Editor script   *)
(* that masks Sentinel-2 tiles, attaches six spectral indices and builds   *)
(* one Drive export per tile.                                              *)
(*                                                                         *)
(* The script is a straight-line program: each top-level statement that    *)
(* changes state is one action, taken in program order (pc).  Strings the  *)
(* script computes on (identifiers) are sequences of one-character         *)
(* strings, so that replace, concatenation and toString are computed and   *)
(* not assumed.  Pixel values of the reflectance bands are symbolic terms  *)
(* (the expression graph the script builds); the classification band holds *)
(* integer codes and masks hold booleans, so masking is evaluated.         *)
(*                                                                         *)
(* Inputs of a run, chosen in Init: the filtered collection (tiles), the   *)
(* 'id' the collection's getInfo() reports, and whether the Code Editor's  *)
(* global scope binds the identifier B2, which the script reads at line 92 *)
(* and never declares.                                                     *)
(***************************************************************************)
EXTENDS Integers, Sequences, FiniteSets, TLC

VARIABLES
    tiles,          \* the filtered COPERNICUS/S2_SR collection, in order (input)
    collectionId,   \* S2_collection.getInfo()['id'], <<>> when absent (input)
    B2Defined,      \* does the global scope bind B2 (input)
    pc,             \* position in the script
    S2_collection,  \* line 33: the mapped collection
    n,              \* line 39
    colList,        \* line 42
    colID,          \* lines 48-49
    i,              \* line 51
    exports,        \* the Export.image.toDrive requests built so far, in order
    error,          \* the uncaught exception that ended the script, or "none"
    vmask,          \* SpecMask only: the validity mask being applied
    prev,           \* SpecMask only: the image before the last application
    applied         \* SpecMask only: number of applications so far

vars == <<tiles, collectionId, B2Defined, pc, S2_collection, n, colList, colID,
          i, exports, error, vmask, prev, applied>>

-----------------------------------------------------------------------------
(* Bounds and input domains *)

MaxTiles == 2

MaxApply == 2

Pixels == {"p1", "p2"}

\* Sentinel-2 L2A scene classification codes
Codes == 0..11

CRSs == {"EPSG:32631", "EPSG:32632"}

\* system:index values of catalogue images: pairwise distinct strings
IdPool == { <<"T", "a">>, <<"T", "b">> }

\* the bands of a COPERNICUS/S2_SR image the script names, in catalogue order
RawBands == <<"B2", "B3", "B4", "B8", "B11", "B12", "QA60", "SCL">>

\* a tile that lacks the near-infrared band
BandsNoNIR == <<"B2", "B3", "B4", "B11", "B12", "QA60", "SCL">>

\* classification grids of the tiles of a pipeline run: all cloud (3), all
\* vegetation (4), and a mixed grid
SclGrids ==
    { [p \in Pixels |-> 3],
      [p \in Pixels |-> 4],
      [p \in Pixels |-> IF p = "p1" THEN 5 ELSE 3] }

AllGrids == [Pixels -> Codes]

TileOf(grids) ==
    [id : {<<>>} \cup IdPool, bandNames : {RawBands, BandsNoNIR},
     crs : CRSs, scl : grids]

DistinctIds(s) ==
    \A a, b \in DOMAIN s : (a # b /\ s[a].id # <<>>) => s[a].id # s[b].id

TileSeqs ==
    { s \in UNION { [1..m -> TileOf(SclGrids)] : m \in 0..MaxTiles } : DistinctIds(s) }

CollectionIds ==
    { <<>>, <<"C","O","P","E","R","N","I","C","U","S","/","S","2","_","S","R">> }

-----------------------------------------------------------------------------
(* Script configuration, lines 25, 28 and 46 *)

point == [coordinates |-> <<"4.51984", "51.30761">>, buffer |-> 1000]

output_folder == "test"

S2_bands == <<"SCL", "NDVI", "EVI", "kNDVI", "NIRv", "NDWI", "NMDI">>

-----------------------------------------------------------------------------
(* Sequences and strings *)

Range(s) == { s[k] : k \in DOMAIN s }

Digit(d) == <<"0", "1", "2", "3", "4", "5", "6", "7", "8", "9">>[d + 1]

\* Number.prototype.toString of a non-negative integer
RECURSIVE toString(_)
toString(k) ==
    IF k < 10 THEN <<Digit(k)>> ELSE toString(k \div 10) \o <<Digit(k % 10)>>

\* String.prototype.replace with a string pattern: the first occurrence only
RECURSIVE replace(_, _, _)
replace(s, pat, rep) ==
    IF s = <<>> THEN <<>>
    ELSE IF Head(s) = pat THEN <<rep>> \o Tail(s)
    ELSE <<Head(s)>> \o replace(Tail(s), pat, rep)

\* a || b on strings: b when a is null or empty
OrElse(a, b) == IF a # <<>> THEN a ELSE b

-----------------------------------------------------------------------------
(* Earth Engine values as the script uses them.                            *)
(* A band is [name, data, valid, crs]: per-pixel value, per-pixel mask and *)
(* projection.  An image is [id, bandNames, bands, cast, footprint].  A    *)
(* computation that fails on the server is a value [error |-> ...] that    *)
(* every later operation passes on; getInfo() throws on it.                *)

IsError(x) == "error" \in DOMAIN x

AllValid == [p \in Pixels |-> TRUE]

\* the catalogue image of a tile: line 33, ee.ImageCollection("COPERNICUS/S2_SR")
Image(t) ==
    [id |-> t.id,
     bandNames |-> t.bandNames,
     bands |-> [b \in Range(t.bandNames) |->
                  [name |-> b,
                   data |-> IF b = "SCL" THEN t.scl
                            ELSE [p \in Pixels |-> <<"dn", b, p>>],
                   valid |-> AllValid,
                   crs |-> t.crs]],
     cast |-> "native",
     footprint |-> "tile"]

\* a number used where an image is expected
constant(k) ==
    [name |-> "constant", data |-> [p \in Pixels |-> <<k>>], valid |-> AllValid,
     crs |-> "EPSG:4326"]

\* image.select('B8'): a single band of the image
select(image, name) ==
    IF IsError(image) THEN image
    ELSE IF name \in DOMAIN image.bands THEN image.bands[name]
    ELSE [error |-> <<"Image.select: no band", name>>]

\* a pixelwise binary operation: valid where both inputs are
Binary(op, a, b) ==
    IF IsError(a) THEN a
    ELSE IF IsError(b) THEN b
    ELSE [name |-> a.name,
          data |-> [p \in Pixels |-> <<op, a.data[p], b.data[p]>>],
          valid |-> [p \in Pixels |-> a.valid[p] /\ b.valid[p]],
          crs |-> a.crs]

divide(a, k) == Binary("divide", a, constant(k))

add(a, b) == Binary("add", a, b)

multiply(a, b) == Binary("multiply", a, b)

\* scl.eq(4): a boolean band
eq(a, k) ==
    IF IsError(a) THEN a
    ELSE [a EXCEPT !.data = [p \in Pixels |-> a.data[p] = k]]

or(a, b) ==
    IF IsError(a) THEN a
    ELSE IF IsError(b) THEN b
    ELSE [name |-> a.name,
          data |-> [p \in Pixels |-> a.data[p] \/ b.data[p]],
          valid |-> [p \in Pixels |-> a.valid[p] /\ b.valid[p]],
          crs |-> a.crs]

rename(a, name) == IF IsError(a) THEN a ELSE [a EXCEPT !.name = name]

normalizedDifference(image, names) ==
    rename(Binary("normalizedDifference", select(image, names[1]),
                  select(image, names[2])), "nd")

\* image.expression(formula, args): args is a record of bands
expression(formula, args) ==
    IF \E v \in DOMAIN args : IsError(args[v])
    THEN args[CHOOSE v \in DOMAIN args : IsError(args[v])]
    ELSE [name |-> "constant",
          data |-> [p \in Pixels |->
                      <<"expression", formula, [v \in DOMAIN args |-> args[v].data[p]]>>],
          valid |-> [p \in Pixels |-> \A v \in DOMAIN args : args[v].valid[p]],
          crs |-> args[CHOOSE v \in DOMAIN args : TRUE].crs]

\* image.addBands([...]): the bands are appended in the order given
addBands(image, list) ==
    IF IsError(image) THEN image
    ELSE IF \E k \in DOMAIN list : IsError(list[k])
    THEN list[CHOOSE k \in DOMAIN list : IsError(list[k])]
    ELSE [image EXCEPT
            !.bandNames = @ \o [k \in DOMAIN list |-> list[k].name],
            !.bands = [b \in DOMAIN @ \cup { list[k].name : k \in DOMAIN list } |->
                         IF b \in DOMAIN @ THEN @[b]
                         ELSE list[CHOOSE k \in DOMAIN list : list[k].name = b]]]

\* a mutant of updateMask: masking flips the validity of the masked pixels
updateMaskToggle(image, m) ==
    IF IsError(image) THEN image
    ELSE IF IsError(m) THEN m
    ELSE [image EXCEPT
            !.bands = [b \in DOMAIN @ |->
                         [@[b] EXCEPT !.valid =
                            [p \in Pixels |->
                               IF m.valid[p] /\ m.data[p] THEN @[p] ELSE ~@[p]]]]]

\* image.updateMask(mask): a pixel of any band stays valid only where it was
\* valid and the mask is valid and non-zero
updateMask(image, m) ==
    IF IsError(image) THEN image
    ELSE IF IsError(m) THEN m
    ELSE [image EXCEPT
            !.bands = [b \in DOMAIN @ |->
                         [@[b] EXCEPT !.valid =
                            [p \in Pixels |-> @[p] /\ m.valid[p] /\ m.data[p]]]]]

\* what B2 evaluates to when the global scope binds it: not a band of the tile
GlobalB2 ==
    [name |-> "B2", data |-> [p \in Pixels |-> <<"global", "B2">>],
     valid |-> AllValid, crs |-> "EPSG:4326"]

EVI_FORMULA == "2.5 * ((NIR - RED) / (NIR + 6 * RED - 7.5 * BLUE + 1))"

KNDVI_FORMULA == "exp(-((ndvi * ndvi) / (2 * sigma * sigma)))"

-----------------------------------------------------------------------------
(* maskS2clouds, lines 74-114 *)

IsException(x) == "exception" \in DOMAIN x

SixIndices == <<"NDVI", "EVI", "kNDVI", "NIRv", "NDWI", "NMDI">>

\* a mutant of maskS2clouds: the mask is applied before the index bands are
\* attached, so the index bands are left unmasked
maskS2cloudsMaskFirst(image) ==
    LET scl == select(image, "SCL")
        B4 == divide(select(image, "B4"), "10000")
        B8 == divide(select(image, "B8"), "10000")
        mask == or(eq(scl, 4), eq(scl, 5))
        ndvi == rename(normalizedDifference(image, <<"B8", "B4">>), "NDVI")
    IN  IF ~B2Defined
        THEN [exception |-> "ReferenceError: B2 is not defined"]
        ELSE
        LET evi == rename(expression(EVI_FORMULA,
                              [NIR |-> B8, RED |-> B4, BLUE |-> GlobalB2]), "EVI")
            sigma == multiply(add(B8, B4), constant("0.5"))
            kndvi == rename(expression(KNDVI_FORMULA,
                                [ndvi |-> ndvi, sigma |-> sigma]), "kNDVI")
            nirv == rename(multiply(ndvi, B8), "NIRv")
            ndwi == rename(normalizedDifference(image, <<"B3", "B8">>), "NDWI")
            nmdi == rename(normalizedDifference(image, <<"B8", "B11">>), "NMDI")
        IN  addBands(updateMask(image, mask), <<ndvi, evi, kndvi, nirv, ndwi, nmdi>>)

\* The function evaluates B2 (line 92), which no line of the script declares:
\* where the global scope does not bind it the call throws a ReferenceError.
\* qa, B3, B11 and B12 (lines 75, 77, 80, 81) are selected and never used, so
\* they are no part of the image returned.
maskS2clouds(image) ==
    LET qa == select(image, "QA60")
        scl == select(image, "SCL")
        B3 == divide(select(image, "B3"), "10000")
        B4 == divide(select(image, "B4"), "10000")
        B8 == divide(select(image, "B8"), "10000")
        B11 == divide(select(image, "B11"), "10000")
        B12 == divide(select(image, "B12"), "10000")
        mask == or(eq(scl, 4), eq(scl, 5))
        ndvi == rename(normalizedDifference(image, <<"B8", "B4">>), "NDVI")
    IN  IF ~B2Defined
        THEN [exception |-> "ReferenceError: B2 is not defined"]
        ELSE
        LET evi == rename(expression(EVI_FORMULA,
                              [NIR |-> B8, RED |-> B4, BLUE |-> GlobalB2]), "EVI")
            sigma == multiply(add(B8, B4), constant("0.5"))
            kndvi == rename(expression(KNDVI_FORMULA,
                                [ndvi |-> ndvi, sigma |-> sigma]), "kNDVI")
            nirv == rename(multiply(ndvi, B8), "NIRv")
            ndwi == rename(normalizedDifference(image, <<"B3", "B8">>), "NDWI")
            nmdi == rename(normalizedDifference(image, <<"B8", "B11">>), "NMDI")
        IN  updateMask(addBands(image, <<ndvi, evi, kndvi, nirv, ndwi, nmdi>>), mask)

-----------------------------------------------------------------------------
(* The export loop's expressions, lines 52-68 *)

\* image.double()
double(image) == IF IsError(image) THEN image ELSE [image EXCEPT !.cast = "double"]

\* image.select([...]): the named bands, in the order named
selectBands(image, names) ==
    IF IsError(image) THEN image
    ELSE IF \E k \in DOMAIN names : names[k] \notin DOMAIN image.bands
    THEN [error |-> <<"Image.select: no band",
                      names[CHOOSE k \in DOMAIN names : names[k] \notin DOMAIN image.bands]>>]
    ELSE [image EXCEPT !.bandNames = names,
                       !.bands = [b \in Range(names) |-> @[b]]]

\* image.clip(geometry)
clip(image, geometry) ==
    IF IsError(image) THEN image ELSE [image EXCEPT !.footprint = geometry]

\* a mutant of img: the bands are not selected
imgAllBands(k) == clip(double(colList[k + 1]), point)

\* line 52, for loop index k (colList.get(k) is element k+1 of the sequence)
img(k) == clip(selectBands(double(colList[k + 1]), S2_bands), point)

\* a mutant of id: the fallback identifier counts from one
idOneBased(image, k) ==
    OrElse(image.id, colID \o <<"_","i","m","a","g","e","_">> \o toString(k + 1))

\* a mutant of id: the fallback identifier leaves the index out
idNoIndex(image, k) ==
    OrElse(image.id, colID \o <<"_","i","m","a","g","e","_">>)

\* line 53
id(image, k) ==
    OrElse(image.id, colID \o <<"_","i","m","a","g","e","_">> \o toString(k))

\* a mutant of imageCrs: the CRS of the first image of the collection
imageCrsFirst(image) == select(colList[1], "NDVI").crs

\* lines 56-57
imageCrs(image) == select(image, "NDVI").crs

\* lines 60-68
exportTask(image, ident, crs) ==
    [image |-> image,
     description |-> ident,
     crs |-> crs,
     folder |-> output_folder,
     fileNamePrefix |-> ident,
     region |-> point,
     scale |-> 10]

-----------------------------------------------------------------------------
(* The script, lines 33-71 *)

\* does evaluating the collection fail on the server (some image is an error)
Failed(c) == \E k \in DOMAIN c : IsError(c[k])

EEException == "EEException: Image.select: band not found"

\* the placeholder image ImageCollection.map() calls its function with
ProxyImage ==
    Image([id |-> <<>>, bandNames |-> RawBands, crs |-> "EPSG:4326",
           scl |-> [p \in Pixels |-> 0]])

Init ==
    /\ tiles \in TileSeqs
    /\ collectionId \in CollectionIds
    /\ B2Defined \in BOOLEAN
    /\ pc = "start"
    /\ S2_collection = <<>>
    /\ n = 0
    /\ colList = <<>>
    /\ colID = <<>>
    /\ i = 0
    /\ exports = <<>>
    /\ error = "none"
    /\ vmask = AllValid
    /\ prev = [error |-> "none"]
    /\ applied = 0

\* lines 33-35: map() calls maskS2clouds once, as the statement runs, to build
\* the per-image computation; an exception it throws ends the script
MapCollection ==
    /\ pc = "start"
    /\ IF IsException(maskS2clouds(ProxyImage))
       THEN /\ pc' = "error"
            /\ error' = maskS2clouds(ProxyImage).exception
            /\ UNCHANGED S2_collection
       ELSE /\ S2_collection' = [k \in DOMAIN tiles |-> maskS2clouds(Image(tiles[k]))]
            /\ pc' = "size"
            /\ UNCHANGED error
    /\ UNCHANGED <<tiles, collectionId, B2Defined, n, colList, colID, i, exports,
                   vmask, prev, applied>>

\* line 39: size().getInfo() returns the count; when an image of the collection
\* fails on the server the call may throw instead
Size ==
    /\ pc = "size"
    /\ \/ /\ n' = Len(S2_collection)
          /\ pc' = "toList"
          /\ UNCHANGED error
       \/ /\ Failed(S2_collection)
          /\ pc' = "error"
          /\ error' = EEException
          /\ UNCHANGED n
    /\ UNCHANGED <<tiles, collectionId, B2Defined, S2_collection, colList, colID, i,
                   exports, vmask, prev, applied>>

\* line 42
ToList ==
    /\ pc = "toList"
    /\ colList' = SubSeq(S2_collection, 1, n)
    /\ pc' = "colID"
    /\ UNCHANGED <<tiles, collectionId, B2Defined, S2_collection, n, colID, i,
                   exports, error, vmask, prev, applied>>

\* lines 48-51: getInfo() evaluates every image of the collection and throws when
\* one fails; colID is the id with its first '/' replaced; the loop starts at 0
GetColID ==
    /\ pc = "colID"
    /\ IF Failed(S2_collection)
       THEN /\ pc' = "error"
            /\ error' = EEException
            /\ UNCHANGED <<colID, i>>
       ELSE /\ colID' = replace(OrElse(collectionId, <<>>), "/", "_")
            /\ i' = 0
            /\ pc' = "loop"
            /\ UNCHANGED error
    /\ UNCHANGED <<tiles, collectionId, B2Defined, S2_collection, n, colList,
                   exports, vmask, prev, applied>>

\* lines 51-71, one iteration: the export request of image i is built (and not
\* started: line 70 is commented out)
Export ==
    /\ pc = "loop"
    /\ i < n
    /\ IF IsError(img(i))
       THEN /\ pc' = "error"
            /\ error' = EEException
            /\ UNCHANGED <<i, exports>>
       ELSE /\ exports' = Append(exports,
                                 exportTask(img(i), id(img(i), i), imageCrs(img(i))))
            /\ i' = i + 1
            /\ UNCHANGED <<pc, error>>
    /\ UNCHANGED <<tiles, collectionId, B2Defined, S2_collection, n, colList, colID,
                   vmask, prev, applied>>

\* line 51: i < n is false
LoopExit ==
    /\ pc = "loop"
    /\ i >= n
    /\ pc' = "done"
    /\ UNCHANGED <<tiles, collectionId, B2Defined, S2_collection, n, colList, colID,
                   i, exports, error, vmask, prev, applied>>

Next == MapCollection \/ Size \/ ToList \/ GetColID \/ Export \/ LoopExit

Spec == Init /\ [][Next]_vars

-----------------------------------------------------------------------------
(* maskS2clouds and updateMask as functions: one tile with any classification *)
(* grid is processed, then any validity mask is applied to the result, again  *)
(* and again.                                                                 *)

MaskBand(m) == [name |-> "mask", data |-> m, valid |-> AllValid, crs |-> "EPSG:4326"]

InitMask ==
    /\ tiles \in [1..1 -> TileOf(AllGrids)]
    /\ collectionId = <<>>
    /\ B2Defined \in BOOLEAN
    /\ pc = "raw"
    /\ S2_collection = <<>>
    /\ n = 0
    /\ colList = <<>>
    /\ colID = <<>>
    /\ i = 0
    /\ exports = <<>>
    /\ error = "none"
    /\ vmask \in [Pixels -> BOOLEAN]
    /\ prev = [error |-> "none"]
    /\ applied = 0

\* lines 74-114 on one image
Process ==
    /\ pc = "raw"
    /\ IF IsException(maskS2clouds(Image(tiles[1])))
       THEN /\ pc' = "error"
            /\ error' = maskS2clouds(Image(tiles[1])).exception
            /\ UNCHANGED S2_collection
       ELSE /\ S2_collection' = <<maskS2clouds(Image(tiles[1]))>>
            /\ pc' = "processed"
            /\ UNCHANGED error
    /\ UNCHANGED <<tiles, collectionId, B2Defined, n, colList, colID, i, exports,
                   vmask, prev, applied>>

\* line 113's updateMask, applied to the image once more
ApplyMask ==
    /\ pc = "processed"
    /\ applied < MaxApply
    /\ prev' = S2_collection[1]
    /\ S2_collection' = <<updateMask(S2_collection[1], MaskBand(vmask))>>
    /\ applied' = applied + 1
    /\ UNCHANGED <<tiles, collectionId, B2Defined, pc, n, colList, colID, i, exports,
                   error, vmask>>

NextMask == Process \/ ApplyMask

SpecMask == InitMask /\ [][NextMask]_vars

-----------------------------------------------------------------------------
(* The claims *)

Terminated == pc \in {"done", "error"}

\* every band the index formulas and the mask read is a band of the tile
Complete(t) == t.bandNames = RawBands

\* C1: for an input sequence of n tiles none of which fails (each has every
\* required band), the finished run has produced exactly n export descriptors,
\* the k-th built from the k-th tile.
C1_OneDescriptorPerTile ==
    (Terminated /\ \A k \in DOMAIN tiles : Complete(tiles[k]))
        => /\ Len(exports) = Len(tiles)
           /\ \A k \in DOMAIN exports :
                /\ exports[k].image.id = tiles[k].id
                /\ exports[k].image.bands["SCL"].data = tiles[k].scl

\* C2: a tile that fails in processing produces no descriptor while every other
\* tile of the run still produces its own: even where maskS2clouds itself runs
\* (B2 is bound), the finished run holds one descriptor per complete tile.
C2_FailuresIsolated ==
    (Terminated /\ B2Defined)
        => Len(exports) = Cardinality({ k \in DOMAIN tiles : Complete(tiles[k]) })

\* C3: for every tile with all required bands present, index computation raises
\* no error and attaches exactly the six index bands, and the blue input of EVI
\* is the tile's own blue band divided by 10000.
C3_IndicesNeverFail ==
    \A k \in DOMAIN tiles :
        (pc # "start" /\ Complete(tiles[k]))
            => /\ error # "ReferenceError: B2 is not defined"
               /\ k \in DOMAIN S2_collection
               /\ ~IsError(S2_collection[k])
               /\ S2_collection[k].bandNames = RawBands \o SixIndices
               /\ \A p \in Pixels :
                    S2_collection[k].bands["EVI"].data[p][3].BLUE
                        = <<"divide", <<"dn", "B2", p>>, <<"10000">>>>

C5_Identifier ==
    \A k \in DOMAIN exports :
        LET cid == IF collectionId = <<>> THEN <<>>
                   ELSE <<"C","O","P","E","R","N","I","C","U","S","_","S","2","_","S","R">>
            idx == <<"0", "1", "2", "3", "4", "5", "6", "7", "8", "9">>[k]
        IN  /\ exports[k].description =
                 IF tiles[k].id # <<>> THEN tiles[k].id
                 ELSE cid \o <<"_","i","m","a","g","e","_", idx>>
            /\ exports[k].fileNamePrefix = exports[k].description

C5_Witness ==
    /\ Len(exports) = 2
    /\ tiles[1].id # <<>>
    /\ tiles[2].id = <<>>
    /\ exports[2].description =
         <<"C","O","P","E","R","N","I","C","U","S","_","S","2","_","S","R",
           "_","i","m","a","g","e","_","1">>

C7_CrsPerTile ==
    \A k \in DOMAIN exports : exports[k].crs = tiles[k].crs

C7_Witness ==
    /\ Len(exports) = 2
    /\ tiles[1].crs # tiles[2].crs
    /\ exports[2].crs = tiles[2].crs

\* C8: every descriptor has scale 10, the configured folder, the run's geometry
\* as region and exactly the bands SCL, NDVI, EVI, kNDVI, NIRv, NDWI, NMDI.
C8_FixedParameters ==
    \A k \in DOMAIN exports :
        /\ exports[k].scale = 10
        /\ exports[k].folder = "test"
        /\ exports[k].region = [coordinates |-> <<"4.51984", "51.30761">>, buffer |-> 1000]
        /\ exports[k].image.bandNames
             = <<"SCL", "NDVI", "EVI", "kNDVI", "NIRv", "NDWI", "NMDI">>
        /\ DOMAIN exports[k].image.bands
             = {"SCL", "NDVI", "EVI", "kNDVI", "NIRv", "NDWI", "NMDI"}

C8_Witness ==
    /\ Len(exports) = 2
    /\ tiles[1] # tiles[2]
    /\ exports[2].scale = 10

\* C9: a run over an empty collection ends without an error and with no
\* export descriptor.
C9_EmptyRun ==
    Len(tiles) = 0 => (error = "none" /\ pc # "error" /\ exports = <<>>)

=============================================================================
